---- MODULE Spec2Model ----
(***************************************************************************)
(* Model of the MI Risk Monitor dashboards:                                *)
(*   src/app.py                              security dashboard            *)
(*   src/pages/Etat des Services Bancaires.py banking dashboard            *)
(*                                                                         *)
(* Both programs are Streamlit scripts: every user interaction re-runs the *)
(* whole script over the cached data, so one action of the model is one    *)
(* interaction followed by the complete render pass.                       *)
(*                                                                         *)
(* Representation.                                                         *)
(*  - A Python str on which the code works character by character (the     *)
(*    free texts of an observation, the date keys) is a sequence of        *)
(*    one-character strings.  Region names and level labels are only ever  *)
(*    compared for equality and tested for emptiness, so they are TLA+     *)
(*    strings; the French labels are written without accents ("Eleve").    *)
(*  - A Python dict whose key order is observable (a snapshot, the source  *)
(*    file) is a sequence of <<key, value>> pairs with distinct keys; a    *)
(*    dict used only through `in`, [] and .get is a function.              *)
(***************************************************************************)
EXTENDS Integers, Sequences, FiniteSets, TLC

VARIABLES
    \* the data loaded when the process starts
    all_security_data,  \* app.py:88   date key -> snapshot
    risk_data,          \* app.py:89   the override table (risque.json)
    gdf,                \* app.py:90   the regions of the map
    available_dates,    \* app.py:93
    env,                \* what the process reads from outside: files, clock
    \* the session state of the sidebar widgets of app.py
    date_input,         \* app.py:191  the date object of the date selector
    show_high,          \* app.py:246
    show_medium,        \* app.py:247
    show_low,           \* app.py:248
    selected_regions,   \* app.py:255
    show_comparison,    \* app.py:267
    comparison_options, \* app.py:372  the options of the comparison multiselect
    comparison_dates,   \* app.py:370
    \* the script variables of the last run of app.py
    pc,                 \* where the run ended: "start" before the first run
    selected_date,      \* app.py:200, 212, 225
    security_data,      \* app.py:230
    top_stories,        \* app.py:280
    all_regions,        \* app.py:254
    df_stats,           \* app.py:290
    filtered_df,        \* app.py:293-299
    total_regions,      \* app.py:302
    alert_high,         \* app.py:307
    alert_medium,       \* app.py:308
    alert_low,          \* app.py:309
    delta_high,         \* app.py:325
    delta_medium,       \* app.py:335
    delta_low,          \* app.py:345
    comparison_data,    \* app.py:378-400
    evo_df,             \* app.py:478-479
    gdf_alert,          \* app.py:547-548  the columns tooltip and alert_color
    gdf_filtered,       \* app.py:551
    \* one call of calculate_alert_level: arguments, locals, result
    call,
    \* the banking page (pages/Etat des Services Bancaires.py); its
    \* available_dates and selected_date are named bank_dates and bank_date
    sheet,              \* :49   what the export of the spreadsheet returns
    bank_pc,            \* where the run of the page ended: "start" before the first
    df_banking,         \* :64
    bank_dates,         \* :95   available_dates
    bank_date,          \* :96   selected_date
    all_cities,         \* :108
    selected_city,      \* :109
    status_filter,      \* :120
    df_filtered,        \* :103, 115, 126, 128
    total_banks,        \* :136
    banks_open,         \* :137
    banks_closed,       \* :138
    opening_rate,       \* :139
    closed_delta,       \* :163
    city_stats,         \* :185-192
    quarter_stats,      \* :268-276
    operator_stats      \* :300-309

dataVars == <<all_security_data, risk_data, gdf, available_dates, env>>

widgetVars ==
    <<date_input, show_high, show_medium, show_low, selected_regions,
      show_comparison, comparison_options, comparison_dates>>

resultVars ==
    <<selected_date, security_data, all_regions, df_stats, filtered_df,
      total_regions, alert_high, alert_medium, alert_low,
      delta_high, delta_medium, delta_low, comparison_data, evo_df,
      top_stories, gdf_alert, gdf_filtered>>

runVars == <<pc, resultVars>>

bankVars ==
    <<sheet, bank_pc, df_banking, bank_dates, bank_date, all_cities, selected_city,
      status_filter, df_filtered, total_banks, banks_open, banks_closed,
      opening_rate, closed_delta, city_stats, quarter_stats, operator_stats>>

vars == <<dataVars, widgetVars, runVars, call, bankVars>>

(***************************************************************************)
(* Python str operations used by the code                                  *)
(***************************************************************************)
UpperChars ==
    <<"A", "B", "C", "D", "E", "F", "G", "H", "I", "J", "K", "L", "M",
      "N", "O", "P", "Q", "R", "S", "T", "U", "V", "W", "X", "Y", "Z", "É">>

LowerChars ==
    <<"a", "b", "c", "d", "e", "f", "g", "h", "i", "j", "k", "l", "m",
      "n", "o", "p", "q", "r", "s", "t", "u", "v", "w", "x", "y", "z", "é">>

\* The lower-case form of each upper-case character.
LowerOf == [c \in {UpperChars[i] : i \in 1..Len(UpperChars)} |->
              LowerChars[CHOOSE i \in 1..Len(UpperChars) : UpperChars[i] = c]]

LowerChar(c) == IF c \in DOMAIN LowerOf THEN LowerOf[c] ELSE c

\* str.lower()
Lower(s) == [i \in 1..Len(s) |-> LowerChar(s[i])]

\* `p in s` for two str: p occurs as a substring of s
Contains(p, s) ==
    \E i \in 1..(Len(s) - Len(p) + 1) : SubSeq(s, i, i + Len(p) - 1) = p

\* dict.get(key, default) on a dict modelled as a function
Get(d, key, default) == IF key \in DOMAIN d THEN d[key] ELSE default

(***************************************************************************)
(* calculate_alert_level (app.py:98-145)                                   *)
(***************************************************************************)
\* The three results, (level, icon, colour); an icon is named by its code point.
Eleve  == <<"Eleve",  "U+1F534", "#d32f2f">>
Moyen  == <<"Moyen",  "U+1F7E1", "#f57c00">>
Faible == <<"Faible", "U+1F7E2", "#388e3c">>

\* The keys of an observation read by the code.
SituationKey == "Situation generale"
ActivitesKey == "Activites economiques"
CirculationKey == "Circulation"
CouvreFeuKey == "Couvre-feu"

\* The patterns searched for in the lower-cased texts.
tendu        == <<"t", "e", "n", "d", "u">>
pillage      == <<"p", "i", "l", "l", "a", "g", "e">>
ghost_town   == <<"g", "h", "o", "s", "t", " ", "t", "o", "w", "n">>
ras          == <<"r", "a", "s">>
calme        == <<"c", "a", "l", "m", "e">>
ferme        == <<"f", "e", "r", "m", "é">>
ralenti      == <<"r", "a", "l", "e", "n", "t", "i">>
vide         == <<"v", "i", "d", "e">>
variable     == <<"v", "a", "r", "i", "a", "b", "l", "e">>
interdiction == <<"i", "n", "t", "e", "r", "d", "i", "c", "t", "i", "o", "n">>

\* app.py:102  the guard of the override branch
HasRiskEntry(region_name, date_str) ==
    /\ date_str /= <<>>
    /\ region_name /= ""
    /\ date_str \in DOMAIN risk_data
    /\ region_name \in DOMAIN risk_data[date_str]

\* Mutant of situation_of: the text is not lower-cased.
situation_of_CaseSensitive(region_data) == Get(region_data, SituationKey, <<>>)

\* app.py:115  region_data.get('Situation générale', '').lower()
situation_of(region_data) == Lower(Get(region_data, SituationKey, <<>>))

\* app.py:116
activites_of(region_data) == Lower(Get(region_data, ActivitesKey, <<>>))

\* app.py:117
couvre_feu_of(region_data) == Lower(Get(region_data, CouvreFeuKey, <<>>))

\* Mutant of SituationScore: the ghost-town test comes first.
SituationScore_GhostFirst(situation) ==
    IF Contains(ghost_town, situation) THEN 4
    ELSE IF Contains(tendu, situation) \/ Contains(pillage, situation) THEN 3
    ELSE IF Contains(ras, situation) \/ Contains(calme, situation) THEN 0
    ELSE 1

\* app.py:120-127  the if/elif chain over the situation
SituationScore(situation) ==
    IF Contains(tendu, situation) \/ Contains(pillage, situation) THEN 3
    ELSE IF Contains(ghost_town, situation) THEN 4
    ELSE IF Contains(ras, situation) \/ Contains(calme, situation) THEN 0
    ELSE 1

\* app.py:130-133
ActivitesScore(activites) ==
    IF \/ Contains(ferme, activites)
       \/ Contains(ralenti, activites)
       \/ Contains(vide, activites) THEN 2
    ELSE IF Contains(variable, activites) THEN 1
    ELSE 0

\* app.py:136-137
CouvreFeuScore(couvre_feu) ==
    IF Contains(interdiction, couvre_feu) \/ Contains(ghost_town, couvre_feu)
    THEN 2 ELSE 0

\* Mutant of LevelOfScore: the upper threshold is exclusive.
LevelOfScore_Exclusive(score) ==
    IF score > 5 THEN Eleve
    ELSE IF score >= 2 THEN Moyen
    ELSE Faible

\* app.py:140-145
LevelOfScore(score) ==
    IF score >= 5 THEN Eleve
    ELSE IF score >= 2 THEN Moyen
    ELSE Faible

\* Mutant of alert_level_run: the label of an entry is returned as it is.
alert_level_run_PassThrough(region_data, region_name, date_str) ==
    LET level_fr == risk_data[date_str][region_name]
        found == HasRiskEntry(region_name, date_str)
        s1 == SituationScore(situation_of(region_data))
        s2 == s1 + ActivitesScore(activites_of(region_data))
        s3 == s2 + CouvreFeuScore(couvre_feu_of(region_data))
    IN  IF found /\ level_fr = "Eleve" THEN [score |-> <<>>, ret |-> Eleve]
        ELSE IF found /\ level_fr = "Moyen" THEN [score |-> <<>>, ret |-> Moyen]
        ELSE IF found THEN [score |-> <<>>, ret |-> <<level_fr, Faible[2], Faible[3]>>]
        ELSE [score |-> <<s1, s2, s3>>, ret |-> LevelOfScore(s3)]

\* Mutant of alert_level_run: a score of 5 or more wins over the override.
alert_level_run_Blend(region_data, region_name, date_str) ==
    LET level_fr == risk_data[date_str][region_name]
        found == HasRiskEntry(region_name, date_str)
        s1 == SituationScore(situation_of(region_data))
        s2 == s1 + ActivitesScore(activites_of(region_data))
        s3 == s2 + CouvreFeuScore(couvre_feu_of(region_data))
    IN  IF s3 >= 5 THEN [score |-> <<s1, s2, s3>>, ret |-> Eleve]
        ELSE IF found /\ level_fr = "Eleve" THEN [score |-> <<>>, ret |-> Eleve]
        ELSE IF found /\ level_fr = "Moyen" THEN [score |-> <<>>, ret |-> Moyen]
        ELSE IF found /\ level_fr = "Faible" THEN [score |-> <<>>, ret |-> Faible]
        ELSE [score |-> <<s1, s2, s3>>, ret |-> LevelOfScore(s3)]

\* Mutant of alert_level_run: an entry with an unknown label gives Low.
alert_level_run_UnknownIsLow(region_data, region_name, date_str) ==
    LET level_fr == risk_data[date_str][region_name]
        found == HasRiskEntry(region_name, date_str)
        s1 == SituationScore(situation_of(region_data))
        s2 == s1 + ActivitesScore(activites_of(region_data))
        s3 == s2 + CouvreFeuScore(couvre_feu_of(region_data))
    IN  IF found /\ level_fr = "Eleve" THEN [score |-> <<>>, ret |-> Eleve]
        ELSE IF found /\ level_fr = "Moyen" THEN [score |-> <<>>, ret |-> Moyen]
        ELSE IF found THEN [score |-> <<>>, ret |-> Faible]
        ELSE [score |-> <<s1, s2, s3>>, ret |-> LevelOfScore(s3)]

\* app.py:98-145  one execution: the returned tuple, and the value of the local
\* `score` after each of the three analyses (<<>> when the function returned
\* from the override branch, before line 114).
alert_level_run(region_data, region_name, date_str) ==
    LET level_fr == risk_data[date_str][region_name]
        found == HasRiskEntry(region_name, date_str)
        s1 == SituationScore(situation_of(region_data))
        s2 == s1 + ActivitesScore(activites_of(region_data))
        s3 == s2 + CouvreFeuScore(couvre_feu_of(region_data))
    IN  IF found /\ level_fr = "Eleve" THEN [score |-> <<>>, ret |-> Eleve]
        ELSE IF found /\ level_fr = "Moyen" THEN [score |-> <<>>, ret |-> Moyen]
        ELSE IF found /\ level_fr = "Faible" THEN [score |-> <<>>, ret |-> Faible]
        ELSE [score |-> <<s1, s2, s3>>, ret |-> LevelOfScore(s3)]

\* app.py:98  the value returned
calculate_alert_level(region_data, region_name, date_str) ==
    alert_level_run(region_data, region_name, date_str).ret

(***************************************************************************)
(* Dates: datetime.strptime(s, "%Y-%m-%d"), strftime("%Y-%m-%d"),          *)
(* differences of dates, and the str order used by sorted()                *)
(***************************************************************************)
Digits == <<"0", "1", "2", "3", "4", "5", "6", "7", "8", "9">>

IsDigit(c) == \E i \in 1..10 : Digits[i] = c

DigitVal(c) == (CHOOSE i \in 1..10 : Digits[i] = c) - 1

\* int() of a non-empty string of digits
RECURSIVE ParseInt(_)
ParseInt(s) ==
    IF Len(s) = 0 THEN 0
    ELSE 10 * ParseInt(SubSeq(s, 1, Len(s) - 1)) + DigitVal(s[Len(s)])

\* n written in decimal, zero-padded on the left to `width` characters (%02d, %04d)
RECURSIVE Pad(_, _)
Pad(n, width) ==
    IF width <= 1 /\ n < 10 THEN <<Digits[n + 1]>>
    ELSE Pad(n \div 10, width - 1) \o <<Digits[(n % 10) + 1]>>

\* date.strftime("%Y-%m-%d"); a date object is <<year, month, day>>
strftime(date) ==
    Pad(date[1], 4) \o <<"-">> \o Pad(date[2], 2) \o <<"-">> \o Pad(date[3], 2)

\* The positions of the hyphens of s.
Hyphens(s) == {i \in 1..Len(s) : s[i] = "-"}

\* datetime.strptime(s, "%Y-%m-%d"): a four-digit year, then a month and a day
\* of one or two digits each, separated by hyphens.
strptime(s) ==
    LET h1 == CHOOSE i \in Hyphens(s) : \A j \in Hyphens(s) : i <= j
        h2 == CHOOSE i \in Hyphens(s) : \A j \in Hyphens(s) : j <= i
    IN  <<ParseInt(SubSeq(s, 1, h1 - 1)),
          ParseInt(SubSeq(s, h1 + 1, h2 - 1)),
          ParseInt(SubSeq(s, h2 + 1, Len(s)))>>

IsLeap(y) == (y % 4 = 0) /\ ((y % 100 /= 0) \/ (y % 400 = 0))

DaysInMonth(y, m) ==
    IF m = 2 THEN (IF IsLeap(y) THEN 29 ELSE 28)
    ELSE IF m \in {4, 6, 9, 11} THEN 30 ELSE 31

RECURSIVE DaysBeforeMonth(_, _)
DaysBeforeMonth(y, m) ==
    IF m = 1 THEN 0 ELSE DaysBeforeMonth(y, m - 1) + DaysInMonth(y, m - 1)

\* date.toordinal(): the number of days since 0001-01-01, that day being 1
toordinal(date) ==
    LET y == date[1] - 1
    IN  y * 365 + (y \div 4) - (y \div 100) + (y \div 400)
        + DaysBeforeMonth(date[1], date[2]) + date[3]

\* abs(a - b) of two datetimes at midnight, in days
AbsDays(a, b) ==
    LET n == toordinal(a) - toordinal(b) IN IF n < 0 THEN 0 - n ELSE n

\* ord() of the characters of a key
Ord(c) ==
    IF c = " " THEN 32
    ELSE IF c = "-" THEN 45
    ELSE IF c = "/" THEN 47
    ELSE IF IsDigit(c) THEN 48 + DigitVal(c)
    ELSE IF c = "É" THEN 201
    ELSE IF c = "é" THEN 233
    ELSE IF c \in DOMAIN LowerOf
    THEN 64 + (CHOOSE i \in 1..Len(UpperChars) : UpperChars[i] = c)
    ELSE 96 + (CHOOSE i \in 1..Len(LowerChars) : LowerChars[i] = c)

\* a < b for two str (lexicographic by code point)
RECURSIVE StrLess(_, _)
StrLess(a, b) ==
    IF Len(b) = 0 THEN FALSE
    ELSE IF Len(a) = 0 THEN TRUE
    ELSE IF a[1] /= b[1] THEN Ord(a[1]) < Ord(b[1])
    ELSE StrLess(Tail(a), Tail(b))

\* sorted(S) of a set of distinct str
RECURSIVE Sorted(_)
Sorted(S) ==
    IF S = {} THEN <<>>
    ELSE LET lo == CHOOSE x \in S : \A y \in S \ {x} : StrLess(x, y)
         IN  <<lo>> \o Sorted(S \ {lo})

\* sorted(S) without reverse=True: the oldest key first.
SortedReverse_Ascending(S) == Sorted(S)

\* sorted(S, reverse=True)
RECURSIVE SortedReverse(_)
SortedReverse(S) ==
    IF S = {} THEN <<>>
    ELSE LET hi == CHOOSE x \in S : \A y \in S \ {x} : StrLess(y, x)
         IN  <<hi>> \o SortedReverse(S \ {hi})

(***************************************************************************)
(* Inputs: the pools the specifications draw the data from                 *)
(***************************************************************************)
\* The value of a component that the specification at hand does not run.
Off == [on |-> FALSE]

\* The largest number of phrases of a generated situation text.
MaxPhrases == 2

SituationPhrases ==
    { <<"T", "e", "n", "d", "u">>,
      <<"P", "i", "l", "l", "a", "g", "e">>,
      <<"G", "h", "o", "s", "t", " ", "t", "o", "w", "n">>,
      <<"R", "A", "S">>,
      <<"I", "n", "c", "i", "d", "e", "n", "t", "s">> }

\* The texts made of at most k phrases, separated by ", ".
RECURSIVE PhraseTexts(_)
PhraseTexts(k) ==
    IF k = 0 THEN {<<>>}
    ELSE LET prev == PhraseTexts(k - 1)
         IN  prev \cup { IF t = <<>> THEN p ELSE t \o <<",", " ">> \o p :
                           t \in prev, p \in SituationPhrases }

SituationTexts == PhraseTexts(MaxPhrases)

ActivitesTexts ==
    { <<>>,
      <<"f", "e", "r", "m", "é">>,
      <<"V", "I", "D", "E">>,
      <<"V", "a", "r", "i", "a", "b", "l", "e">>,
      <<"V", "a", "r", "i", "a", "b", "l", "e", ",", " ", "F", "e", "r", "m", "é">> }

CouvreFeuTexts ==
    { <<"i", "n", "t", "e", "r", "d", "i", "c", "t", "i", "o", "n">>,
      <<"G", "H", "O", "S", "T", " ", "T", "O", "W", "N">>,
      <<"R", "A", "S">> }

\* An optional field: <<>> when the key is missing, <<text>> when present.
Optional(texts) == {<<>>} \cup {<<t>> : t \in texts}

\* The observation (a dict) holding exactly the fields that are present.
Observation(sit, act, cf) ==
    LET opt == [k \in {SituationKey, ActivitesKey, CouvreFeuKey} |->
                  IF k = SituationKey THEN sit
                  ELSE IF k = ActivitesKey THEN act ELSE cf]
    IN  [k \in {k \in DOMAIN opt : opt[k] /= <<>>} |-> opt[k][1]]

Observations ==
    { Observation(sit, act, cf) :
        sit \in Optional(SituationTexts),
        act \in Optional(ActivitesTexts),
        cf \in Optional(CouvreFeuTexts) }

\* The date keys of the sample sources.
Key0130 == strftime(<<2025, 1, 30>>)
Key0131 == strftime(<<2025, 1, 31>>)
Key0202 == strftime(<<2025, 2, 2>>)
Key0203 == strftime(<<2025, 2, 3>>)

\* The labels found in risque.json: the three levels and one that is none of them.
Labels == {"Eleve", "Moyen", "Faible", "Critique"}

\* Override tables with at most one entry; the date key and the region name
\* of an entry may be the empty string.
SmallRiskTables ==
    {<<>>, (Key0202 :> ("North" :> "Eleve")), (<<>> :> ("North" :> "Eleve"))}
    \cup { (Key0131 :> (r :> l)) : r \in {"North", ""}, l \in Labels }

(***************************************************************************)
(* SpecClassify: calculate_alert_level applied to every input of the pools *)
(***************************************************************************)
\* The widgets and the script variables of a page that is not open.
NoWidgets ==
    /\ date_input = Off /\ show_high = Off /\ show_medium = Off
    /\ show_low = Off /\ selected_regions = Off /\ show_comparison = Off
    /\ comparison_options = Off /\ comparison_dates = Off

NoBank ==
    /\ sheet = Off /\ bank_pc = Off /\ df_banking = Off /\ bank_dates = Off
    /\ bank_date = Off /\ all_cities = Off /\ selected_city = Off
    /\ status_filter = Off /\ df_filtered = Off /\ total_banks = Off
    /\ banks_open = Off /\ banks_closed = Off /\ opening_rate = Off
    /\ closed_delta = Off /\ city_stats = Off /\ quarter_stats = Off
    /\ operator_stats = Off

NoRun ==
    /\ selected_date = Off /\ security_data = Off /\ all_regions = Off
    /\ df_stats = Off /\ filtered_df = Off /\ total_regions = Off
    /\ alert_high = Off /\ alert_medium = Off /\ alert_low = Off
    /\ delta_high = Off /\ delta_medium = Off /\ delta_low = Off
    /\ comparison_data = Off /\ evo_df = Off
    /\ top_stories = Off /\ gdf_alert = Off /\ gdf_filtered = Off

InitClassify ==
    /\ risk_data \in SmallRiskTables
    /\ all_security_data = <<>>
    /\ available_dates = <<>>
    /\ env = Off
    /\ gdf = Off
    /\ NoWidgets
    /\ pc = Off
    /\ NoRun
    /\ call = [pc |-> "idle"]
    /\ NoBank

\* One call: the arguments, the local `score` after each analysis, the result.
CalculateAlertLevel ==
    /\ call.pc = "idle"
    /\ \E region_data \in Observations,
          region_name \in {"North", "Centre", ""},
          date_str \in {<<>>, Key0131} :
         LET run == alert_level_run(region_data, region_name, date_str)
         IN  call' = [pc |-> "return",
                      region_data |-> region_data,
                      region_name |-> region_name,
                      date_str |-> date_str,
                      score |-> run.score,
                      ret |-> run.ret]
    /\ UNCHANGED <<dataVars, widgetVars, runVars, bankVars>>

NextClassify == CalculateAlertLevel

SpecClassify == InitClassify /\ [][NextClassify]_vars

(***************************************************************************)
(* The sample sources of the dashboard                                     *)
(***************************************************************************)
ObsGhost ==
    (SituationKey :> <<"G", "h", "o", "s", "t", " ", "t", "o", "w", "n">>)
    @@ (ActivitesKey :> <<"f", "e", "r", "m", "é">>)
    @@ (CirculationKey :> <<"N", "u", "l", "l", "e">>)
    @@ (CouvreFeuKey :> <<"i", "n", "t", "e", "r", "d", "i", "c", "t", "i", "o", "n">>)

ObsTense ==
    (SituationKey :> <<"T", "e", "n", "d", "u">>)
    @@ (ActivitesKey :> <<"V", "a", "r", "i", "a", "b", "l", "e">>)
    @@ (CouvreFeuKey :> <<"R", "A", "S">>)

ObsCalm ==
    (SituationKey :> <<"R", "A", "S">>)
    @@ (CouvreFeuKey :> <<"R", "A", "S">>)

\* security_data.json: date key -> snapshot, a snapshot being the dict
\* region -> observation in the order of the file.
SampleSecurityData ==
    (Key0130 :> << >>)
    @@ (Key0131 :> << <<"Centre", ObsCalm>>, <<"North", ObsGhost>> >>)
    @@ (Key0202 :> << <<"North", ObsTense>>, <<"Littoral", ObsGhost>> >>)
    @@ (Key0203 :> << <<"Centre", ObsTense>>, <<"North", ObsCalm>> >>)

\* The sources the dashboard is run on: the sample file restricted to some of
\* its dates (no date at all: the file is missing).
SampleDateSets ==
    { {},
      {Key0131},
      {Key0131, Key0202},
      {Key0130, Key0131, Key0203},
      {Key0131, Key0202, Key0203} }

SecuritySources ==
    { [k \in K |-> SampleSecurityData[k]] : K \in SampleDateSets }

\* risque.json: missing, or a table with entries for some (date, region).
\* One key is written without zero padding, which strptime accepts.
KeyUnpadded == <<"2", "0", "2", "5", "-", "1", "-", "5">>

SampleRiskData ==
    (Key0131 :> (("North" :> "Faible") @@ ("Centre" :> "Moyen")))
    @@ (Key0202 :> ("North" :> "Eleve"))
    @@ (Key0203 :> (("Littoral" :> "Moyen") @@ ("North" :> "Critique")))
    @@ (KeyUnpadded :> ("Centre" :> "Faible"))

RiskSources == {<<>>, SampleRiskData}

(***************************************************************************)
(* The loaders (app.py:43-93)                                              *)
(*                                                                         *)
(* A file is missing, holds a text json.load cannot parse, or holds JSON:  *)
(* [state |-> "missing" | "malformed" | "json", data |-> the parsed value].*)
(* A JSON object is the sequence of its <<key, value>> pairs in the order  *)
(* of the file.  A loader gives [raised, value]: `raised` when an          *)
(* exception leaves it.                                                    *)
(***************************************************************************)
\* dict(pairs) as a function of the keys
DictOf(pairs) ==
    [k \in {pairs[i][1] : i \in 1..Len(pairs)} |->
        pairs[CHOOSE i \in 1..Len(pairs) : pairs[i][1] = k][2]]

\* app.py:52-54  first_key and the test on it; Python indexes from 0
first_key_of(data) == IF data /= <<>> THEN data[1][1] ELSE <<>>

looks_like_date(first_key) ==
    /\ first_key /= <<>>
    /\ Len(first_key) = 10
    /\ first_key[5] = "-"
    /\ first_key[8] = "-"

\* Mutant of load_security_data_by_date: a file whose first key is not a date
\* key is returned as it is.
load_security_data_by_date_NoWrap(file, today) ==
    IF file.state = "missing" THEN [raised |-> FALSE, value |-> <<>>]
    ELSE IF file.state = "malformed" THEN [raised |-> TRUE, value |-> <<>>]
    ELSE [raised |-> FALSE, value |-> DictOf(file.data)]

\* app.py:43-65  only FileNotFoundError is caught; the error json.load raises
\* on a text it cannot parse leaves the function.
load_security_data_by_date(file, today) ==
    IF file.state = "missing" THEN [raised |-> FALSE, value |-> <<>>]
    ELSE IF file.state = "malformed" THEN [raised |-> TRUE, value |-> <<>>]
    ELSE IF looks_like_date(first_key_of(file.data))
    THEN [raised |-> FALSE, value |-> DictOf(file.data)]
    ELSE [raised |-> FALSE, value |-> (today :> file.data)]

\* app.py:67-77
load_risk_data(file) ==
    IF file.state = "missing" THEN [raised |-> FALSE, value |-> <<>>]
    ELSE IF file.state = "malformed" THEN [raised |-> TRUE, value |-> <<>>]
    ELSE [raised |-> FALSE, value |-> file.data]

\* gdf is None
NoGdf == [loaded |-> FALSE, shapeName |-> <<>>]

\* app.py:79-86  `caught` says whether the error gpd.read_file raises on a
\* missing file is a FileNotFoundError; a file that is there is read.
load_geodata(file, caught) ==
    IF file.state = "missing"
    THEN [raised |-> ~caught, value |-> NoGdf]
    ELSE [raised |-> FALSE, value |-> [loaded |-> TRUE, shapeName |-> file.data]]

\* The files the loaders are run on.
KeyNorth == <<"N", "o", "r", "t", "h">>
KeyCentre == <<"C", "e", "n", "t", "r", "e">>
KeySouthWest == <<"S", "o", "u", "t", "h", " ", "W", "e", "s", "t">>
KeyNineChars == <<"2", "0", "2", "5", "-", "0", "2", "-", "3">>
KeySlashes == <<"2", "0", "2", "5", "/", "0", "2", "/", "0", "3">>
KeyHyphens == <<"N", "o", "r", "d", "-", "O", "u", "-", "s", "t">>

\* The JSON objects of security_data.json: keyed by date, in the old flat
\* format (region -> observation), and with first keys close to a date key.
SecurityObjects ==
    { <<>>,
      << <<Key0203, SampleSecurityData[Key0203]>>,
         <<Key0131, SampleSecurityData[Key0131]>> >>,
      << <<Key0131, SampleSecurityData[Key0131]>>,
         <<Key0202, SampleSecurityData[Key0202]>>,
         <<Key0203, SampleSecurityData[Key0203]>> >>,
      << <<Key0203, SampleSecurityData[Key0203]>>, <<KeyNorth, ObsCalm>> >>,
      << <<KeyNorth, ObsCalm>>, <<Key0203, SampleSecurityData[Key0203]>> >>,
      << <<KeyNorth, ObsCalm>>, <<KeyCentre, ObsTense>> >>,
      << <<KeySouthWest, ObsGhost>>, <<KeyNorth, ObsCalm>> >>,
      << <<KeyNineChars, SampleSecurityData[Key0203]>> >>,
      << <<KeySlashes, SampleSecurityData[Key0203]>> >>,
      << <<KeyHyphens, ObsTense>>, <<KeyNorth, ObsCalm>> >> }

Missing == [state |-> "missing", data |-> <<>>]
Malformed == [state |-> "malformed", data |-> <<>>]
Json(data) == [state |-> "json", data |-> data]

SecurityFiles == {Missing, Malformed} \cup {Json(o) : o \in SecurityObjects}

RiskFiles == {Missing, Malformed, Json(<<>>), Json(SampleRiskData)}

\* The shapeName column of the GeoJSON file.
SampleShapes == <<"Centre", "East", "Littoral", "North">>

GeoFiles == {Missing, Json(SampleShapes)}

InitLoad ==
    /\ env \in [today : {Key0203},
                security_file : SecurityFiles,
                risk_file : RiskFiles,
                geo_file : GeoFiles]
    /\ pc = "import"
    /\ all_security_data = <<>>
    /\ risk_data = <<>>
    /\ gdf = NoGdf
    /\ available_dates = <<>>
    /\ NoWidgets
    /\ NoRun
    /\ call = Off
    /\ NoBank

\* app.py:88-93  the module-level loads, in the order of the script; an
\* exception that leaves a loader ends the script there.
LoadData ==
    /\ pc = "import"
    /\ \E caught \in BOOLEAN :
         /\ pc' = IF load_security_data_by_date(env.security_file, env.today).raised
                  THEN "raised_88"
                  ELSE IF load_risk_data(env.risk_file).raised THEN "raised_89"
                  ELSE IF load_geodata(env.geo_file, caught).raised THEN "raised_90"
                  ELSE "start"
         /\ all_security_data' =
              load_security_data_by_date(env.security_file, env.today).value
         /\ risk_data' = IF pc' = "raised_88" THEN <<>>
                         ELSE load_risk_data(env.risk_file).value
         /\ gdf' = IF pc' \in {"raised_88", "raised_89"} THEN NoGdf
                   ELSE load_geodata(env.geo_file, caught).value
         /\ available_dates' = IF pc' = "start"
                               THEN SortedReverse(DOMAIN all_security_data')
                               ELSE <<>>
    /\ UNCHANGED <<env, widgetVars, resultVars, call, bankVars>>

NextLoad == LoadData

SpecLoad == InitLoad /\ [][NextLoad]_vars

(***************************************************************************)
(* dict operations on a dict kept as a sequence of <<key, value>> pairs    *)
(***************************************************************************)
\* list(d.keys())
Keys(d) == [i \in 1..Len(d) |-> d[i][1]]

\* key in d
HasKey(d, key) == \E i \in 1..Len(d) : d[i][1] = key

\* d[key]
Lookup(d, key) == d[CHOOSE i \in 1..Len(d) : d[i][1] = key][2]

\* The elements of a list, as a set.
Elems(seq) == {seq[i] : i \in 1..Len(seq)}

(***************************************************************************)
(* The date selector (app.py:186-230)                                      *)
(***************************************************************************)
\* app.py:188
date_objects == [i \in 1..Len(available_dates) |-> strptime(available_dates[i])]

\* min(date_objects), max(date_objects): dates compare by the calendar
MinDate(dates) ==
    dates[CHOOSE i \in 1..Len(dates) :
            \A j \in 1..Len(dates) : toordinal(dates[i]) <= toordinal(dates[j])]

MaxDate(dates) ==
    dates[CHOOSE i \in 1..Len(dates) :
            \A j \in 1..Len(dates) : toordinal(dates[j]) <= toordinal(dates[i])]

\* The day after a date.
NextDay(date) ==
    IF date[3] < DaysInMonth(date[1], date[2]) THEN <<date[1], date[2], date[3] + 1>>
    ELSE IF date[2] < 12 THEN <<date[1], date[2] + 1, 1>>
    ELSE <<date[1] + 1, 1, 1>>

\* The dates from lo to hi: what st.date_input lets the user pick with
\* min_value = lo and max_value = hi (app.py:191-197).
RECURSIVE DatesBetween(_, _)
DatesBetween(lo, hi) ==
    IF toordinal(lo) > toordinal(hi) THEN {}
    ELSE {lo} \cup DatesBetween(NextDay(lo), hi)

\* Mutant of closest_date: the first date of the list, whatever its distance.
closest_date_First(dates, wanted) == dates[1]

\* Mutant of closest_date: the last date of the list at the smallest distance.
closest_date_LastMinimum(dates, wanted) ==
    LET dist(i) == AbsDays(strptime(dates[i]), strptime(wanted))
    IN  dates[CHOOSE i \in 1..Len(dates) :
                /\ \A j \in 1..Len(dates) : dist(i) <= dist(j)
                /\ \A j \in (i + 1)..Len(dates) : dist(j) > dist(i)]

\* app.py:208-210  min(available_dates, key=...): the first date of the list
\* whose distance to the selected date is the smallest.
closest_date(dates, wanted) ==
    LET dist(i) == AbsDays(strptime(dates[i]), strptime(wanted))
    IN  dates[CHOOSE i \in 1..Len(dates) :
                /\ \A j \in 1..Len(dates) : dist(i) <= dist(j)
                /\ \A j \in 1..(i - 1) : dist(j) > dist(i)]

\* app.py:186-225  selected_date after the sidebar block; `date_input` is the
\* date object returned by the widget.
resolve_selected_date(date) ==
    IF Len(available_dates) > 0
    THEN IF strftime(date) \in Elems(available_dates) THEN strftime(date)
         ELSE closest_date(available_dates, strftime(date))
    ELSE env.today

(***************************************************************************)
(* Statistics of one snapshot (app.py:147-161, 290-349)                    *)
(***************************************************************************)
NA == <<"N", "/", "A">>

\* app.py:147-161
create_statistics_dataframe(data, date_str) ==
    [i \in 1..Len(data) |->
        LET region == data[i][1]
            info == data[i][2]
            alert == calculate_alert_level(info, region, date_str)
        IN  [Region |-> region,
             Niveau |-> alert[1],
             Icone |-> alert[2],
             Situation |-> Get(info, SituationKey, NA),
             Activites |-> Get(info, ActivitesKey, NA),
             Circulation |-> Get(info, CirculationKey, NA),
             CouvreFeu |-> Get(info, CouvreFeuKey, NA)]]

\* df[df[column] != level]
DropLevel(df, level) ==
    LET keep(row) == row.Niveau /= level IN SelectSeq(df, keep)

\* df[df[column] == level]
OnlyLevel(df, level) ==
    LET keep(row) == row.Niveau = level IN SelectSeq(df, keep)

\* Mutant of filter_rows: an empty selection of regions, and no level ticked,
\* keep every row.
filter_rows_EmptyPassesAll(df, regions, high, medium, low) ==
    LET isin(row) == regions = <<>> \/ row.Region \in Elems(regions)
        none == ~high /\ ~medium /\ ~low
        f0 == SelectSeq(df, isin)
        f1 == IF ~high /\ ~none THEN DropLevel(f0, "Eleve") ELSE f0
        f2 == IF ~medium /\ ~none THEN DropLevel(f1, "Moyen") ELSE f1
    IN  IF ~low /\ ~none THEN DropLevel(f2, "Faible") ELSE f2

\* app.py:293-299
filter_rows(df, regions, high, medium, low) ==
    LET isin(row) == row.Region \in Elems(regions)
        f0 == SelectSeq(df, isin)
        f1 == IF ~high THEN DropLevel(f0, "Eleve") ELSE f0
        f2 == IF ~medium THEN DropLevel(f1, "Moyen") ELSE f1
    IN  IF ~low THEN DropLevel(f2, "Faible") ELSE f2

\* round(100 * n / d) to the nearest integer, halves to the even one: what
\* the format :.0f prints for n / d * 100
PercentRounded(n, d) ==
    LET q == (100 * n) \div d
        r == (100 * n) % d
    IN  IF 2 * r > d THEN q + 1
        ELSE IF 2 * r < d THEN q
        ELSE IF q % 2 = 0 THEN q ELSE q + 1

\* app.py:325, 335, 345  the delta of a level's metric
percent_delta(count, total) ==
    IF total > 0 THEN PercentRounded(count, total) ELSE 0

(***************************************************************************)
(* The series over several dates (app.py:365-402, 443-479)                 *)
(***************************************************************************)
\* date.strftime("%d/%m/%Y")
strftime_dmy(date) ==
    Pad(date[3], 2) \o <<"/">> \o Pad(date[2], 2) \o <<"/">> \o Pad(date[1], 4)

\* app.py:372  the options of the comparison multiselect
comparison_options_of(date) ==
    LET other(d) == d /= date IN SelectSeq(available_dates, other)

\* app.py:373  its default; Python indexes from 0
comparison_default ==
    LET n == Len(available_dates) - 1
    IN  <<available_dates[(IF 1 < n THEN 1 ELSE n) + 1]>>

\* Mutant of comparison_rows: a chosen region without observation gets a row
\* with no level.
comparison_rows_Placeholder(date, data, chosen) ==
    [i \in 1..Len(chosen) |->
        [Date |-> strftime_dmy(strptime(date)),
         Region |-> chosen[i],
         Niveau |-> IF HasKey(data, chosen[i])
                    THEN calculate_alert_level(Lookup(data, chosen[i]), chosen[i], date)[1]
                    ELSE "None"]]

\* app.py:381-388 and 393-400  the rows of one date
comparison_rows(date, data, chosen) ==
    LET present(region) == HasKey(data, region)
        regions == SelectSeq(chosen, present)
    IN  [i \in 1..Len(regions) |->
            [Date |-> strftime_dmy(strptime(date)),
             Region |-> regions[i],
             Niveau |-> calculate_alert_level(Lookup(data, regions[i]), regions[i], date)[1]]]

\* app.py:391-400  the rows of the comparison dates, in the order of the list
RECURSIVE comparison_tail(_, _)
comparison_tail(dates, regions) ==
    IF dates = <<>> THEN <<>>
    ELSE comparison_rows(Head(dates), Get(all_security_data, Head(dates), <<>>), regions)
         \o comparison_tail(Tail(dates), regions)

\* app.py:378-400
build_comparison_data(date, data, dates, regions) ==
    comparison_rows(date, data, regions) \o comparison_tail(dates, regions)

\* app.py:451
score_map == ("Faible" :> 1) @@ ("Moyen" :> 2) @@ ("Eleve" :> 3)

\* app.py:454
target_regions == <<"Far North", "Littoral", "Centre", "North", "West">>

\* app.py:456-458
regions_to_plot(regions) ==
    LET chosen(r) == r \in Elems(regions)
        known(r) == \E d \in DOMAIN risk_data : r \in DOMAIN risk_data[d]
        first == SelectSeq(target_regions, chosen)
    IN  IF first = <<>> THEN SelectSeq(target_regions, known) ELSE first

\* app.py:461-473  the rows of one date of risque.json
evolution_rows(date_str, regions) ==
    LET listed(r) == r \in DOMAIN risk_data[date_str] /\ risk_data[date_str][r] /= ""
        present == SelectSeq(regions, listed)
    IN  [i \in 1..Len(present) |->
            LET level == risk_data[date_str][present[i]]
            IN  [Date |-> strptime(date_str),
                 Region |-> present[i],
                 Niveau |-> level,
                 Score |-> Get(score_map, level, "None")]]

\* app.py:460  the loop over the sorted dates
RECURSIVE evolution_loop(_, _)
evolution_loop(dates, regions) ==
    IF dates = <<>> THEN <<>>
    ELSE evolution_rows(Head(dates), regions) \o evolution_loop(Tail(dates), regions)

\* Insertion of a row into rows already sorted by Date, after the rows of the
\* same date.
RECURSIVE InsertByDate(_, _)
InsertByDate(row, rows) ==
    IF rows = <<>> THEN <<row>>
    ELSE IF toordinal(row.Date) < toordinal(Head(rows).Date) THEN <<row>> \o rows
    ELSE <<Head(rows)>> \o InsertByDate(row, Tail(rows))

\* Mutant of sort_values_Date: the rows stay in the order of the loop.
sort_values_Date_Unsorted(rows) == rows

\* app.py:479  evo_df.sort_values("Date"); rows of one date keep their order
RECURSIVE sort_values_Date(_)
sort_values_Date(rows) ==
    IF rows = <<>> THEN <<>>
    ELSE InsertByDate(rows[Len(rows)], sort_values_Date(SubSeq(rows, 1, Len(rows) - 1)))

\* app.py:445-479  evo_df; empty when nothing is plotted
build_evo_df(regions) ==
    IF DOMAIN risk_data = {} THEN <<>>
    ELSE sort_values_Date(
             evolution_loop(Sorted(DOMAIN risk_data), regions_to_plot(regions)))

(***************************************************************************)
(* One run of app.py                                                       *)
(*                                                                         *)
(* A run assigns the script variables in the order of the script.  A       *)
(* widget keeps its value from one run to the next only if it is created   *)
(* again with the same options; a widget whose options changed, or that    *)
(* the previous run did not reach, takes its default.  all_regions and     *)
(* comparison_options are the options of the two multiselects in the last  *)
(* run, <<>> when the widget was not created (both lists are non-empty     *)
(* when it is).  The display options (map, statistics, table) stay at      *)
(* their defaults, and top_stories.json is present.                        *)
(***************************************************************************)
\* The largest number of dates chosen in the comparison multiselect.
MaxComparison == 2

\* What a run that ended before line 290 leaves of the statistics, the
\* series and the map: nothing is computed, and the comparison multiselect is
\* not created.
NotComputed ==
    /\ comparison_options' = <<>> /\ comparison_dates' = <<>>
    /\ df_stats' = <<>> /\ filtered_df' = <<>>
    /\ total_regions' = 0
    /\ alert_high' = 0 /\ alert_medium' = 0 /\ alert_low' = 0
    /\ delta_high' = 0 /\ delta_medium' = 0 /\ delta_low' = 0
    /\ comparison_data' = <<>>
    /\ evo_df' = <<>>
    /\ gdf_alert' = <<>> /\ gdf_filtered' = <<>>

\* app.py:547-548  the level, icon and colour of every shape of the map
alert_of_shapes(data, date) ==
    [i \in 1..Len(gdf.shapeName) |->
        LET region == gdf.shapeName[i]
            d == IF HasKey(data, region) THEN Lookup(data, region) ELSE <<>>
            alert == calculate_alert_level(d, region, date)
        IN  [shapeName |-> region,
             level |-> alert[1],
             icon |-> alert[2],
             alert_color |-> alert[3],
             situation |-> Get(d, SituationKey, NA)]]

\* Mutant of shapes_isin: every shape of the geometry is drawn.
shapes_isin_All(rows, regions) == rows

\* app.py:551  gdf[gdf["shapeName"].isin(selected_regions)]
shapes_isin(rows, regions) ==
    LET isin(row) == row.shapeName \in Elems(regions) IN SelectSeq(rows, isin)

\* app.py:280-558  the rest of a run that has read top_stories.json
AfterTopStories(high, medium, low, comparison, dates) ==
    /\ top_stories' = Get(env.top_stories_file.data, selected_date', <<>>)
    \* app.py:290-309
    /\ df_stats' = create_statistics_dataframe(security_data', selected_date')
    /\ filtered_df' = filter_rows(df_stats', selected_regions', high, medium, low)
    /\ total_regions' = Len(filtered_df')
    /\ alert_high' = Len(OnlyLevel(filtered_df', "Eleve"))
    /\ alert_medium' = Len(OnlyLevel(filtered_df', "Moyen"))
    /\ alert_low' = Len(OnlyLevel(filtered_df', "Faible"))
    /\ delta_high' = percent_delta(alert_high', total_regions')
    /\ delta_medium' = percent_delta(alert_medium', total_regions')
    /\ delta_low' = percent_delta(alert_low', total_regions')
    \* app.py:365-374  st.multiselect raises when its default is not one of
    \* its options, and the run ends there
    /\ pc' = IF /\ comparison
                /\ Len(available_dates) > 1
                /\ comparison_default[1]
                     \notin Elems(comparison_options_of(selected_date'))
             THEN "exception" ELSE "done"
    /\ comparison_options' =
         IF comparison /\ Len(available_dates) > 1 /\ pc' = "done"
         THEN comparison_options_of(selected_date') ELSE <<>>
    /\ comparison_dates' =
         IF comparison_options' = <<>> THEN <<>>
         ELSE IF comparison_options = comparison_options' THEN dates
         ELSE comparison_default
    \* app.py:376-402
    /\ comparison_data' =
         IF comparison_dates' /= <<>>
         THEN build_comparison_data(selected_date', security_data',
                                    comparison_dates', selected_regions')
         ELSE <<>>
    \* app.py:421-479
    /\ evo_df' = IF pc' = "done" THEN build_evo_df(selected_regions') ELSE <<>>
    \* app.py:520-551  the map, when the geometry was loaded
    /\ gdf_alert' = IF pc' = "done" /\ gdf.loaded
                    THEN alert_of_shapes(security_data', selected_date') ELSE <<>>
    /\ gdf_filtered' = shapes_isin(gdf_alert', selected_regions')

\* Mutant of Stopped: the script does not stop and goes on with the empty
\* snapshot.
Stopped_Continues ==
    /\ show_high' = TRUE /\ show_medium' = TRUE /\ show_low' = TRUE
    /\ all_regions' = <<>> /\ selected_regions' = <<>>
    /\ show_comparison' = FALSE
    /\ AfterTopStories(TRUE, TRUE, TRUE, FALSE, <<>>)

\* app.py:232-234  st.stop(): nothing after line 234 is computed, and the
\* widgets created after it lose their state.
Stopped ==
    /\ pc' = "stopped"
    /\ show_high' = TRUE /\ show_medium' = TRUE /\ show_low' = TRUE
    /\ all_regions' = <<>> /\ selected_regions' = <<>>
    /\ show_comparison' = FALSE
    /\ top_stories' = <<>>
    /\ NotComputed

\* app.py:186-558  the script runs with the widgets holding these values
Run(date, high, medium, low, regions, comparison, dates) ==
    /\ date_input' = date
    /\ selected_date' = resolve_selected_date(date)
    /\ security_data' = Get(all_security_data, selected_date', <<>>)
    /\ IF security_data' = <<>>
       THEN Stopped
       ELSE /\ show_high' = high /\ show_medium' = medium /\ show_low' = low
            \* app.py:254-259
            /\ all_regions' = Keys(security_data')
            /\ selected_regions' =
                 IF all_regions = all_regions' THEN regions ELSE all_regions'
            /\ show_comparison' = comparison
            /\ IF env.top_stories_file.state = "missing"
               THEN \* app.py:276  open() raises FileNotFoundError
                    /\ pc' = "raised_276"
                    /\ top_stories' = <<>>
                    /\ NotComputed
               ELSE AfterTopStories(high, medium, low, comparison, dates)
    /\ UNCHANGED <<dataVars, call, bankVars>>

\* top_stories.json: the stories of some dates.
SampleStories == (Key0203 :> "stories of 2025-02-03")

\* The geometry as load_geodata returns it.
SampleGdf == [loaded |-> TRUE, shapeName |-> SampleShapes]

\* What the loaders returned and which files are there: every security
\* source with and without risque.json, the other files present; and, for two
\* of the security sources, top_stories.json or the GeoJSON file missing.
Sites ==
    [security : SecuritySources, risk : RiskSources,
     gdf : {SampleGdf}, top_stories : {Json(SampleStories)}]
    \cup [security : {[k \in {Key0131, Key0202} |-> SampleSecurityData[k]]},
          risk : {SampleRiskData},
          gdf : {SampleGdf, NoGdf}, top_stories : {Missing, Json(SampleStories)}]
    \cup [security : {[k \in {Key0131} |-> SampleSecurityData[k]]},
          risk : {<<>>},
          gdf : {NoGdf}, top_stories : {Missing, Json(<<>>)}]

\* app.py:88-93  the data are loaded; the script has not run yet.
Init ==
    /\ \E site \in Sites :
         /\ all_security_data = site.security
         /\ risk_data = site.risk
         /\ gdf = site.gdf
         /\ env = [today |-> Key0203, top_stories_file |-> site.top_stories]
    /\ available_dates = SortedReverse(DOMAIN all_security_data)
    /\ pc = "start"
    /\ date_input = strptime(env.today)
    /\ show_high = TRUE /\ show_medium = TRUE /\ show_low = TRUE
    /\ all_regions = <<>> /\ selected_regions = <<>>
    /\ show_comparison = FALSE
    /\ comparison_options = <<>> /\ comparison_dates = <<>>
    /\ selected_date = <<>> /\ security_data = <<>>
    /\ df_stats = <<>> /\ filtered_df = <<>>
    /\ total_regions = 0
    /\ alert_high = 0 /\ alert_medium = 0 /\ alert_low = 0
    /\ delta_high = 0 /\ delta_medium = 0 /\ delta_low = 0
    /\ comparison_data = <<>>
    /\ evo_df = <<>>
    /\ top_stories = <<>>
    /\ gdf_alert = <<>> /\ gdf_filtered = <<>>
    /\ call = Off
    /\ NoBank

\* The sub-lists of a list, in the order of the list.
RECURSIVE SubLists(_)
SubLists(seq) ==
    IF seq = <<>> THEN {<<>>}
    ELSE LET rest == SubLists(Tail(seq))
         IN  rest \cup {<<Head(seq)>> \o t : t \in rest}

\* The lists of at most k distinct elements of S.
Arrangements(S, k) ==
    { t \in UNION {[1..n -> S] : n \in 0..k} :
        \A i, j \in 1..Len(t) : i /= j => t[i] /= t[j] }

\* The session opens: the first run, every widget at its default
\* (app.py:193: the date selector shows date_objects[0]).
FirstRun ==
    /\ pc = "start"
    /\ Run(IF Len(available_dates) > 0 THEN date_objects[1] ELSE date_input,
           TRUE, TRUE, TRUE, <<>>, FALSE, <<>>)

\* The user picks a date in the date selector.
PickDate ==
    /\ pc /= "start"
    /\ Len(available_dates) > 0
    /\ \E d \in DatesBetween(MinDate(date_objects), MaxDate(date_objects)) :
         /\ d /= date_input
         /\ Run(d, show_high, show_medium, show_low, selected_regions,
                show_comparison, comparison_dates)

\* The user ticks or unticks one of the three level checkboxes.
ToggleHigh ==
    /\ pc \in {"done", "exception", "raised_276"}
    /\ Run(date_input, ~show_high, show_medium, show_low, selected_regions,
           show_comparison, comparison_dates)

ToggleMedium ==
    /\ pc \in {"done", "exception", "raised_276"}
    /\ Run(date_input, show_high, ~show_medium, show_low, selected_regions,
           show_comparison, comparison_dates)

ToggleLow ==
    /\ pc \in {"done", "exception", "raised_276"}
    /\ Run(date_input, show_high, show_medium, ~show_low, selected_regions,
           show_comparison, comparison_dates)

\* The user changes the selection of regions.
SelectRegions ==
    /\ pc \in {"done", "exception", "raised_276"}
    /\ \E sel \in SubLists(all_regions) :
         /\ sel /= selected_regions
         /\ Run(date_input, show_high, show_medium, show_low, sel,
                show_comparison, comparison_dates)

\* The user ticks or unticks "Comparer avec d'autres dates".
ToggleComparison ==
    /\ pc \in {"done", "exception", "raised_276"}
    /\ Run(date_input, show_high, show_medium, show_low, selected_regions,
           ~show_comparison, comparison_dates)

\* The user changes the dates of the comparison multiselect.
SelectComparisonDates ==
    /\ pc = "done"
    /\ comparison_options /= <<>>
    /\ \E sel \in Arrangements(Elems(comparison_options), MaxComparison) :
         /\ sel /= comparison_dates
         /\ Run(date_input, show_high, show_medium, show_low, selected_regions,
                show_comparison, sel)

Next ==
    \/ FirstRun
    \/ PickDate
    \/ ToggleHigh
    \/ ToggleMedium
    \/ ToggleLow
    \/ SelectRegions
    \/ ToggleComparison
    \/ SelectComparisonDates

Spec == Init /\ [][Next]_vars

(***************************************************************************)
(* The banking page (pages/Etat des Services Bancaires.py)                 *)
(*                                                                         *)
(* A frame is the sequence of its rows.  A name (city, quarter, operator)  *)
(* is a string, a cell of the sheet that pandas reads as missing is NaN,   *)
(* and the text of the column Ouvert is a Python str.                      *)
(***************************************************************************)
\* pd.read_csv reads an empty cell as NaN
NaN == "NaN"

isna(v) == v = NaN

\* a == b for two cells: NaN equals nothing
CellEq(a, b) == ~isna(a) /\ ~isna(b) /\ a = b

\* str.strip(): the blanks at both ends removed
RECURSIVE lstrip(_)
lstrip(s) == IF s /= <<>> /\ Head(s) = " " THEN lstrip(Tail(s)) ELSE s

RECURSIVE rstrip(_)
rstrip(s) ==
    IF s /= <<>> /\ s[Len(s)] = " " THEN rstrip(SubSeq(s, 1, Len(s) - 1)) ELSE s

strip(s) == rstrip(lstrip(s))

oui == <<"o", "u", "i">>
non == <<"n", "o", "n">>

\* :57  .str.strip().str.lower().map({'oui': 'Oui', 'non': 'Non'}) on one cell:
\* a missing cell stays missing, a text that is not a key of the dict maps to NaN
normalize_ouvert(cell) ==
    IF cell = <<>> THEN NaN
    ELSE IF Lower(strip(cell)) = oui THEN "Oui"
    ELSE IF Lower(strip(cell)) = non THEN "Non"
    ELSE NaN

\* :47-61  the export could not be fetched or parsed, or the column Ouvert has
\* no text at all (then it has no .str accessor): the exception is caught and
\* the frame is empty.  Otherwise Date is parsed and Ouvert is mapped.
load_banking_data(sh) ==
    IF ~sh.ok THEN <<>>
    ELSE IF sh.rows /= <<>> /\ \A i \in 1..Len(sh.rows) : sh.rows[i].Ouvert = <<>>
    THEN <<>>
    ELSE [i \in 1..Len(sh.rows) |->
            [Date |-> strptime(sh.rows[i].Date),
             Ville |-> sh.rows[i].Ville,
             Quartier |-> sh.rows[i].Quartier,
             Operateurs |-> sh.rows[i].Operateurs,
             Ouvert |-> normalize_ouvert(sh.rows[i].Ouvert)]]

\* The values of one column, and those that are not missing.
Column(df, col) == {df[i][col] : i \in 1..Len(df)}

NotNa(S) == {v \in S : ~isna(v)}

\* sorted() of the names the sheets use, by code point
NameOrder == <<"Akwa", "BICEC", "Bastos", "Bonanjo", "Douala", "SGC", "Yaounde">>

SortedNames(S) == LET member(n) == n \in S IN SelectSeq(NameOrder, member)

\* :95  sorted(dates, reverse=True)
RECURSIVE SortedDatesReverse(_)
SortedDatesReverse(S) ==
    IF S = {} THEN <<>>
    ELSE LET hi == CHOOSE x \in S : \A y \in S : toordinal(y) <= toordinal(x)
         IN  <<hi>> \o SortedDatesReverse(S \ {hi})

\* :103  the rows of one date
FilterDate(df, date) == LET keep(row) == row.Date = date IN SelectSeq(df, keep)

\* :108  sorted() compares a NaN with a str and raises TypeError
cities_raise(df) == NaN \in Column(df, "Ville") /\ NotNa(Column(df, "Ville")) /= {}

\* :108
cities_of(df) ==
    <<"Toutes">> \o (IF NaN \in Column(df, "Ville") THEN <<NaN>>
                    ELSE SortedNames(Column(df, "Ville")))

\* :114-115
FilterCity(df, city) ==
    LET keep(row) == CellEq(row.Ville, city)
    IN  IF city /= "Toutes" THEN SelectSeq(df, keep) ELSE df

\* :125-128
FilterStatus(df, status) ==
    LET open(row) == CellEq(row.Ouvert, "Oui")
        closed(row) == CellEq(row.Ouvert, "Non")
    IN  IF status = "Ouverts uniquement" THEN SelectSeq(df, open)
        ELSE IF status = "Fermes uniquement" THEN SelectSeq(df, closed)
        ELSE df

\* n / d * 100 rounded to one decimal, in tenths; halves go to the even tenth
Tenths(n, d) ==
    LET q == (1000 * n) \div d
        r == (1000 * n) % d
    IN  IF 2 * r > d THEN q + 1
        ELSE IF 2 * r < d THEN q
        ELSE IF q % 2 = 0 THEN q ELSE q + 1

\* The float n / d * 100 of two integer columns: pandas does not raise on a
\* zero divisor, it gives inf, or NaN for 0 / 0.
Rate(n, d) ==
    IF d /= 0 THEN [kind |-> "float", tenths |-> Tenths(n, d)]
    ELSE IF n = 0 THEN [kind |-> "nan", tenths |-> 0]
    ELSE [kind |-> "inf", tenths |-> 0]

\* The literal 0 the guarded expressions fall back to.
Zero == [kind |-> "float", tenths |-> 0]

\* len(df[df[col] == value])
CountEq(df, col, value) ==
    LET hit(row) == CellEq(row[col], value) IN Len(SelectSeq(df, hit))

\* 'count' of a column: the cells that are not missing
CountNotNa(df, col) ==
    LET hit(row) == ~isna(row[col]) IN Len(SelectSeq(df, hit))

\* The rows of df whose cell in column col is key.
Group(df, col, key) == LET hit(row) == row[col] = key IN SelectSeq(df, hit)

\* :185-192  groupby('Ville') leaves out the rows without city and lists the
\* groups in the order of their keys
city_stats_of(df) ==
    LET keys == SortedNames(NotNa(Column(df, "Ville")))
    IN  [i \in 1..Len(keys) |->
            LET g == Group(df, "Ville", keys[i])
                total == CountNotNa(g, "Operateurs")
                ouverts == CountEq(g, "Ouvert", "Oui")
            IN  [Ville |-> keys[i],
                 Total |-> total,
                 Ouverts |-> ouverts,
                 Fermes |-> total - ouverts,
                 Taux |-> Rate(ouverts, total)]]

\* A sort key for the rates that are numbers.
RateKey(rate) == IF rate.kind = "inf" THEN 1000000 ELSE rate.tenths

\* sort_values on the rate: a NaN goes last, rows of equal rate keep their order
RateBefore(a, b, ascending) ==
    /\ a.kind /= "nan"
    /\ \/ b.kind = "nan"
       \/ IF ascending THEN RateKey(a) < RateKey(b) ELSE RateKey(a) > RateKey(b)

RECURSIVE InsertByRate(_, _, _)
InsertByRate(row, rows, ascending) ==
    IF rows = <<>> THEN <<row>>
    ELSE IF RateBefore(row.Taux, Head(rows).Taux, ascending) THEN <<row>> \o rows
    ELSE <<Head(rows)>> \o InsertByRate(row, Tail(rows), ascending)

RECURSIVE sort_values_Taux(_, _)
sort_values_Taux(rows, ascending) ==
    IF rows = <<>> THEN <<>>
    ELSE InsertByRate(rows[Len(rows)],
                      sort_values_Taux(SubSeq(rows, 1, Len(rows) - 1), ascending),
                      ascending)

\* :268-275  groupby(['Ville', 'Quartier'])
quarter_stats_of(df) ==
    LET cities == SortedNames(NotNa(Column(df, "Ville")))
        quarters == SortedNames(NotNa(Column(df, "Quartier")))
        n == Len(quarters)
        pair(k) == <<cities[((k - 1) \div n) + 1], quarters[((k - 1) % n) + 1]>>
        rows(key) == Group(Group(df, "Ville", key[1]), "Quartier", key[2])
        present(k) == rows(pair(k)) /= <<>>
        keys == SelectSeq([k \in 1..(Len(cities) * n) |-> k], present)
    IN  sort_values_Taux(
            [i \in 1..Len(keys) |->
                LET g == rows(pair(keys[i]))
                    total == CountNotNa(g, "Operateurs")
                    ouverts == CountEq(g, "Ouvert", "Oui")
                IN  [Ville |-> pair(keys[i])[1],
                     Quartier |-> pair(keys[i])[2],
                     Total |-> total,
                     Ouverts |-> ouverts,
                     Taux |-> Rate(ouverts, total)]],
            FALSE)

\* :300-308  groupby('Opérateurs')
operator_stats_of(df) ==
    LET keys == SortedNames(NotNa(Column(df, "Operateurs")))
    IN  sort_values_Taux(
            [i \in 1..Len(keys) |->
                LET g == Group(df, "Operateurs", keys[i])
                    total == CountNotNa(g, "Ville")
                    ouvertes == CountEq(g, "Ouvert", "Oui")
                IN  [Operateur |-> keys[i],
                     AgencesOuvertes |-> ouvertes,
                     TotalAgences |-> total,
                     AgencesFermees |-> total - ouvertes,
                     Taux |-> Rate(ouvertes, total)]],
            TRUE)

\* What a run that ended before the statistics leaves: nothing computed, and
\* the widgets it did not create back at their defaults.
NoStatistics ==
    /\ status_filter' = "Tous"
    /\ df_filtered' = <<>>
    /\ total_banks' = 0 /\ banks_open' = 0 /\ banks_closed' = 0
    /\ opening_rate' = Zero /\ closed_delta' = Zero
    /\ city_stats' = <<>> /\ quarter_stats' = <<>> /\ operator_stats' = <<>>

\* :64-309  the page runs with the three widgets holding these values
BankRun(date, city, status) ==
    /\ df_banking' = load_banking_data(sheet)
    /\ IF df_banking' = <<>>
       THEN \* :77-79  st.stop()
            /\ bank_pc' = "stopped"
            /\ bank_dates' = <<>> /\ bank_date' = <<>>
            /\ all_cities' = <<>> /\ selected_city' = "Toutes"
            /\ NoStatistics
       ELSE /\ bank_dates' = SortedDatesReverse(Column(df_banking', "Date"))
            /\ bank_date' = IF bank_dates = bank_dates' THEN date ELSE bank_dates'[1]
            /\ IF cities_raise(FilterDate(df_banking', bank_date'))
               THEN /\ bank_pc' = "exception"
                    /\ all_cities' = <<>> /\ selected_city' = "Toutes"
                    /\ NoStatistics
               ELSE /\ bank_pc' = "done"
                    /\ all_cities' = cities_of(FilterDate(df_banking', bank_date'))
                    /\ selected_city' = IF all_cities = all_cities' THEN city ELSE "Toutes"
                    /\ status_filter' = status
                    /\ df_filtered' =
                         FilterStatus(FilterCity(FilterDate(df_banking', bank_date'),
                                                 selected_city'), status)
                    /\ total_banks' = Len(df_filtered')
                    /\ banks_open' = CountEq(df_filtered', "Ouvert", "Oui")
                    /\ banks_closed' = CountEq(df_filtered', "Ouvert", "Non")
                    /\ opening_rate' = IF total_banks' > 0
                                       THEN Rate(banks_open', total_banks') ELSE Zero
                    /\ closed_delta' = IF total_banks' > 0
                                       THEN Rate(banks_closed', total_banks') ELSE Zero
                    /\ city_stats' = IF selected_city' = "Toutes"
                                     THEN city_stats_of(df_filtered') ELSE <<>>
                    /\ quarter_stats' = quarter_stats_of(df_filtered')
                    /\ operator_stats' = operator_stats_of(df_filtered')
    /\ UNCHANGED <<sheet, dataVars, widgetVars, runVars, call>>

\* The largest number of rows of a sheet.
MaxRows == 3

Row(date, ville, quartier, operateurs, ouvert) ==
    [Date |-> date, Ville |-> ville, Quartier |-> quartier,
     Operateurs |-> operateurs, Ouvert |-> ouvert]

\* The rows the sheets are made of: the texts of Ouvert vary in case and
\* blanks, one is neither oui nor non, and some cells are empty.
SampleRows ==
    << Row(Key0203, "Douala", "Akwa", "BICEC", <<"O", "u", "i">>),
       Row(Key0203, "Douala", "Akwa", "SGC", <<" ", "n", "o", "n", " ">>),
       Row(Key0203, "Douala", "Bonanjo", NaN, <<"O", "U", "I">>),
       Row(Key0203, "Yaounde", "Bastos", NaN, <<"N", "o", "n">>),
       Row(Key0203, "Yaounde", "Bastos", "BICEC",
           <<"p", "e", "u", "t", "-", "e", "t", "r", "e">>),
       Row(Key0202, "Douala", "Akwa", "BICEC", <<>>),
       Row(Key0202, NaN, "Bastos", "SGC", <<" ", "O", "u", "i">>) >>

\* The sheets: the export fails, or it has at most MaxRows of the sample rows,
\* in their order.
Sheets ==
    {[ok |-> FALSE, rows |-> <<>>]}
    \cup {[ok |-> TRUE, rows |-> rows] :
            rows \in {r \in SubLists(SampleRows) : Len(r) <= MaxRows}}

InitBank ==
    /\ all_security_data = <<>> /\ risk_data = <<>>
    /\ available_dates = <<>>
    /\ env = Off
    /\ gdf = Off
    /\ NoWidgets
    /\ pc = Off
    /\ NoRun
    /\ call = Off
    /\ sheet \in Sheets
    /\ bank_pc = "start"
    /\ df_banking = <<>>
    /\ bank_dates = <<>> /\ bank_date = <<>>
    /\ all_cities = <<>> /\ selected_city = "Toutes"
    /\ status_filter = "Tous"
    /\ df_filtered = <<>>
    /\ total_banks = 0 /\ banks_open = 0 /\ banks_closed = 0
    /\ opening_rate = Zero /\ closed_delta = Zero
    /\ city_stats = <<>> /\ quarter_stats = <<>> /\ operator_stats = <<>>

\* The page opens: the first run, the widgets at their defaults.
BankFirstRun ==
    /\ bank_pc = "start"
    /\ BankRun(<<>>, "Toutes", "Tous")

\* The user picks a date, a city or a status.
BankPickDate ==
    /\ bank_pc \in {"done", "exception"}
    /\ \E d \in Elems(bank_dates) :
         d /= bank_date /\ BankRun(d, selected_city, status_filter)

BankPickCity ==
    /\ bank_pc = "done"
    /\ \E c \in Elems(all_cities) :
         c /= selected_city /\ BankRun(bank_date, c, status_filter)

BankPickStatus ==
    /\ bank_pc = "done"
    /\ \E f \in {"Tous", "Ouverts uniquement", "Fermes uniquement"} :
         f /= status_filter /\ BankRun(bank_date, selected_city, f)

NextBank ==
    \/ BankFirstRun
    \/ BankPickDate
    \/ BankPickCity
    \/ BankPickStatus

SpecBank == InitBank /\ [][NextBank]_vars

(***************************************************************************)
(* Claims about calculate_alert_level, checked under SpecClassify          *)
(***************************************************************************)
Returned == call.pc = "return"

\* The override table holds an entry for the (date, region) of the call.
EntryFor ==
    /\ call.date_str \in DOMAIN risk_data
    /\ call.region_name \in DOMAIN risk_data[call.date_str]

EntryLabel == risk_data[call.date_str][call.region_name]

\* The level, icon and colour that go with a level label.
TupleOfLabel(l) ==
    IF l = "Eleve" THEN <<"Eleve", "U+1F534", "#d32f2f">>
    ELSE IF l = "Moyen" THEN <<"Moyen", "U+1F7E1", "#f57c00">>
    ELSE <<"Faible", "U+1F7E2", "#388e3c">>

\* The text of a field of the observation of the call, empty when missing.
FieldText(key) ==
    IF key \in DOMAIN call.region_data THEN call.region_data[key] ELSE <<>>

\* The field mentions the pattern, whatever the case of its letters.
Mentions(p, key) == Contains(p, Lower(FieldText(key)))

GhostTownClosedBan ==
    Observation(<< <<"G", "h", "o", "s", "t", " ", "t", "o", "w", "n">> >>,
                << <<"f", "e", "r", "m", "é">> >>,
                << <<"i", "n", "t", "e", "r", "d", "i", "c", "t", "i", "o", "n">> >>)

\* C1 as stated: whenever the override table holds an entry for (date, region)
\* with one of the three level labels, the call returns that level with its icon
\* and colour, for every date, region and observation.
C1_AsClaimed ==
    (Returned /\ EntryFor /\ EntryLabel \in {"Eleve", "Moyen", "Faible"})
        => call.ret = TupleOfLabel(EntryLabel)

\* C1 amended: for every non-empty date and non-empty region name, an entry of
\* the override table with one of the three level labels is returned as it is,
\* with its icon and colour, whatever the texts of the observation are; the
\* score is not even computed.
C1_OverrideDominance ==
    (/\ Returned /\ EntryFor
     /\ call.date_str /= <<>> /\ call.region_name /= ""
     /\ EntryLabel \in {"Eleve", "Moyen", "Faible"})
        => (call.ret = TupleOfLabel(EntryLabel) /\ call.score = <<>>)

\* C1 witness: an override "Faible" returned for an observation that scores 8.
C1_Witness ==
    /\ Returned /\ EntryFor
    /\ call.region_name = "North"
    /\ EntryLabel = "Faible"
    /\ call.region_data = GhostTownClosedBan
    /\ call.ret[1] = "Faible"

\* C2: without an entry in the override table the call returns one of the three
\* levels, decided by the score alone: score >= 5 High, 2..4 Medium, < 2 Low.
C2_ScoreBoundaries ==
    /\ Returned =>
         call.ret \in {TupleOfLabel("Eleve"), TupleOfLabel("Moyen"), TupleOfLabel("Faible")}
    /\ (Returned /\ ~EntryFor) =>
         /\ Len(call.score) = 3
         /\ call.score[3] >= 5 => call.ret = TupleOfLabel("Eleve")
         /\ (call.score[3] >= 2 /\ call.score[3] <= 4) => call.ret = TupleOfLabel("Moyen")
         /\ call.score[3] < 2 => call.ret = TupleOfLabel("Faible")

\* C2 witness: a score of exactly 5, the lower boundary of High.
C2_Witness ==
    /\ Returned /\ ~EntryFor
    /\ call.score[3] = 5
    /\ call.ret[1] = "Eleve"

\* The situation text mentions both the ghost-town pattern and a tense/looting one.
GhostTownAndTense ==
    /\ Mentions(ghost_town, SituationKey)
    /\ Mentions(tendu, SituationKey) \/ Mentions(pillage, SituationKey)

\* C3 as stated: a situation text with the ghost-town pattern and a
\* tense/looting pattern contributes +4.
C3_AsClaimed ==
    (Returned /\ ~EntryFor /\ GhostTownAndTense) => call.score[1] = 4

\* C3 amended: a situation text with the ghost-town pattern and a tense/looting
\* pattern contributes +3, the tense/looting weight, which is tested first.
C3_TenseFirst ==
    (Returned /\ ~EntryFor /\ GhostTownAndTense) => call.score[1] = 3

\* C3 witness: such a text was scored.
C3_Witness ==
    Returned /\ ~EntryFor /\ GhostTownAndTense /\ call.score[1] = 3

\* C4: without an entry in the override table the score is the sum of the three
\* contributions of the claim's table; an observation with no field scores 1
\* (Low) and ghost town + closed + ban scores 8 (High).
C4_ScoreIsSumOfSignals ==
    (Returned /\ ~EntryFor) =>
        LET T == Mentions(tendu, SituationKey) \/ Mentions(pillage, SituationKey)
            G == Mentions(ghost_town, SituationKey)
            R == Mentions(ras, SituationKey) \/ Mentions(calme, SituationKey)
            closed == \/ Mentions(ferme, ActivitesKey)
                      \/ Mentions(ralenti, ActivitesKey)
                      \/ Mentions(vide, ActivitesKey)
            ban == \/ Mentions(interdiction, CouvreFeuKey)
                   \/ Mentions(ghost_town, CouvreFeuKey)
            sit == call.score[1]
            act == call.score[2] - call.score[1]
            cf == call.score[3] - call.score[2]
        IN  /\ (T /\ ~G /\ ~R) => sit = 3
            /\ (G /\ ~T /\ ~R) => sit = 4
            /\ (R /\ ~T /\ ~G) => sit = 0
            /\ (~T /\ ~G /\ ~R) => sit = 1
            /\ SituationKey \notin DOMAIN call.region_data => sit = 1
            /\ act = (IF closed THEN 2
                      ELSE IF Mentions(variable, ActivitesKey) THEN 1 ELSE 0)
            /\ ActivitesKey \notin DOMAIN call.region_data => act = 0
            /\ cf = (IF ban THEN 2 ELSE 0)
            /\ CouvreFeuKey \notin DOMAIN call.region_data => cf = 0
            /\ call.region_data = <<>> =>
                 (call.score[3] = 1 /\ call.ret[1] = "Faible")
            /\ call.region_data = GhostTownClosedBan =>
                 (call.score[3] = 8 /\ call.ret[1] = "Eleve")

\* C4 witness: ghost town + closed + ban scored 8.
C4_Witness ==
    /\ Returned /\ ~EntryFor
    /\ call.region_data = GhostTownClosedBan
    /\ call.score = <<4, 6, 8>>

\* The label the three analyses give to the observation of the call.
HeuristicLabel ==
    LET sit == IF Mentions(tendu, SituationKey) \/ Mentions(pillage, SituationKey) THEN 3
               ELSE IF Mentions(ghost_town, SituationKey) THEN 4
               ELSE IF Mentions(ras, SituationKey) \/ Mentions(calme, SituationKey) THEN 0
               ELSE 1
        act == IF \/ Mentions(ferme, ActivitesKey)
                  \/ Mentions(ralenti, ActivitesKey)
                  \/ Mentions(vide, ActivitesKey) THEN 2
               ELSE IF Mentions(variable, ActivitesKey) THEN 1 ELSE 0
        cf == IF \/ Mentions(interdiction, CouvreFeuKey)
                 \/ Mentions(ghost_town, CouvreFeuKey) THEN 2 ELSE 0
    IN  IF sit + act + cf >= 5 THEN "Eleve"
        ELSE IF sit + act + cf >= 2 THEN "Moyen" ELSE "Faible"

\* The override table is of no use to the call: the date or the region name
\* passed is empty, or the entry holds a label that is none of the three.
OverrideUnusable ==
    \/ call.date_str = <<>>
    \/ call.region_name = ""
    \/ EntryFor /\ EntryLabel \notin {"Eleve", "Moyen", "Faible"}

\* C22: when the entry of the override table for (date, region) holds a label
\* that is none of the three level labels, or the date or the region name
\* passed is empty, the override is ignored and the call returns the level of
\* the heuristic for the observation; every call returns one of the three
\* levels.
C22_UnusableOverrideIgnored ==
    Returned =>
        /\ call.ret[1] \in {"Eleve", "Moyen", "Faible"}
        /\ OverrideUnusable =>
              /\ call.ret = TupleOfLabel(HeuristicLabel)
              /\ Len(call.score) = 3

\* C22 witness: an entry "Critique" for the region and the date of the call,
\* and the observation ghost town + closed + ban classified High.
C22_Witness ==
    /\ Returned /\ EntryFor
    /\ call.date_str = Key0131 /\ call.region_name = "North"
    /\ EntryLabel = "Critique"
    /\ call.region_data = GhostTownClosedBan
    /\ call.ret[1] = "Eleve" /\ call.score[3] = 8

(***************************************************************************)
(* Claims about one run of app.py, checked under Spec                      *)
(***************************************************************************)
\* The script has run past the filters (it may have ended at the comparison
\* multiselect).
Ran == pc \in {"done", "exception"}

\* The date asked for in the date selector, as a key.
Requested == strftime(date_input)

\* The calendar-day distance from the date asked for to the date of a key.
Distance(key) == AbsDays(strptime(key), date_input)

\* C5: whenever there are available dates, the date a run works on is one of
\* them; it is the date asked for when that date is available, and otherwise
\* an available date at the smallest calendar-day distance from it.
C5_DateResolution ==
    (pc /= "start" /\ Len(available_dates) > 0) =>
        /\ selected_date \in Elems(available_dates)
        /\ Requested \in Elems(available_dates) => selected_date = Requested
        /\ \A d \in Elems(available_dates) : Distance(selected_date) <= Distance(d)

\* A run fell back from a date without snapshot to a nearest date that is not
\* the first of the list.
C5_Witness ==
    /\ pc /= "start"
    /\ Len(available_dates) > 1
    /\ Requested \notin Elems(available_dates)
    /\ selected_date /= available_dates[1]
    /\ Distance(selected_date) = 1
    /\ Distance(available_dates[1]) = 2

\* The date asked for has no snapshot and lies midway between the available
\* dates `earlier` and `later`, which are the nearest ones.
Tie(earlier, later) ==
    /\ pc /= "start"
    /\ Requested \notin Elems(available_dates)
    /\ earlier \in Elems(available_dates)
    /\ later \in Elems(available_dates)
    /\ toordinal(strptime(earlier)) < toordinal(date_input)
    /\ toordinal(date_input) < toordinal(strptime(later))
    /\ Distance(earlier) = Distance(later)
    /\ \A d \in Elems(available_dates) : Distance(earlier) <= Distance(d)

\* C6 as stated: on a tie the fallback selects the earlier date.
C6_AsClaimed ==
    \A e, l \in Elems(available_dates) : Tie(e, l) => selected_date = e

\* C6, amended: when the date asked for has no snapshot and an earlier and a
\* later available date are equally near, the fallback selects the later one.
C6_TieTowardLater ==
    \A e, l \in Elems(available_dates) : Tie(e, l) => selected_date = l

\* 2025-02-01 was asked for, with 2025-01-31 and 2025-02-02 available.
C6_Witness ==
    /\ date_input = <<2025, 2, 1>>
    /\ Tie(Key0131, Key0202)
    /\ selected_date = Key0202

\* The checkbox of a level is ticked.
LevelEnabled(level) ==
    \/ level = "Eleve" /\ show_high
    \/ level = "Moyen" /\ show_medium
    \/ level = "Faible" /\ show_low

NoLevelEnabled == ~show_high /\ ~show_medium /\ ~show_low

\* C7 as stated: a row is kept iff its region is selected and its level is
\* enabled, an empty selection of regions and a selection of no level passing
\* everything.
C7_AsClaimed ==
    Ran =>
        LET keep(row) ==
                /\ selected_regions = <<>> \/ row.Region \in Elems(selected_regions)
                /\ NoLevelEnabled \/ LevelEnabled(row.Niveau)
        IN  filtered_df = SelectSeq(df_stats, keep)

\* C7, amended: a row is kept iff its region is selected and the checkbox of
\* its level is ticked; an empty selection of regions keeps no row, and so
\* does a run with no checkbox ticked; the defaults (every region selected,
\* the three checkboxes ticked) keep every row.
C7_FilterKeepsSelected ==
    Ran =>
        LET keep(row) ==
                /\ row.Region \in Elems(selected_regions)
                /\ LevelEnabled(row.Niveau)
        IN  /\ filtered_df = SelectSeq(df_stats, keep)
            /\ (selected_regions = <<>> \/ NoLevelEnabled) => filtered_df = <<>>
            /\ (selected_regions = all_regions /\ show_high /\ show_medium /\ show_low)
                  => filtered_df = df_stats

\* A run over a snapshot with rows, the selection of regions empty.
C7_Witness ==
    /\ pc = "done"
    /\ Len(df_stats) = 2
    /\ selected_regions = <<>>
    /\ show_high /\ show_medium /\ show_low
    /\ filtered_df = <<>>

\* C8: whatever the snapshot, the selection of regions and the checkboxes,
\* the counts of the three levels over the filtered rows add up to the number
\* of filtered rows.
C8_CountsSumToTotal ==
    Ran =>
        /\ total_regions = Len(filtered_df)
        /\ alert_high + alert_medium + alert_low = total_regions

\* A run that filtered a level out and counted rows of the two others, one of
\* them a row whose entry of risque.json has a label the function ignores.
C8_Witness ==
    /\ pc = "done"
    /\ selected_date = Key0203
    /\ risk_data /= <<>>
    /\ ~show_medium
    /\ Len(df_stats) = 2
    /\ total_regions = 1
    /\ alert_low = 1
    /\ filtered_df[1].Region = "North"

\* The date of a row of comparison_data ("%d/%m/%Y"), as a date object.
strptime_dmy(s) ==
    <<ParseInt(SubSeq(s, 7, 10)), ParseInt(SubSeq(s, 4, 5)), ParseInt(SubSeq(s, 1, 2))>>

\* The rows are in ascending order of the date `day` gives them.
Ascending(rows, day(_)) ==
    \A i, j \in 1..Len(rows) : i < j => toordinal(day(rows[i])) <= toordinal(day(rows[j]))

ComparisonDay(row) == strptime_dmy(row.Date)

EvolutionDay(row) == row.Date

\* C10 as stated: the rows of both series over several dates are in ascending
\* order of date.
C10_AsClaimed ==
    pc = "done" =>
        /\ Ascending(comparison_data, ComparisonDay)
        /\ Ascending(evo_df, EvolutionDay)

\* The place of a row of comparison_data in the order: the selected date,
\* then the comparison dates as the multiselect lists them.
ComparisonRank(row) ==
    LET order == <<selected_date>> \o comparison_dates
    IN  CHOOSE k \in 1..Len(order) : strftime_dmy(strptime(order[k])) = row.Date

\* C10, amended: the rows of the evolution series are in ascending order of
\* date; the rows of the comparison series are those of the selected date
\* followed by those of the comparison dates in the order of the multiselect,
\* whatever the calendar order of these dates.
C10_SeriesOrder ==
    pc = "done" =>
        /\ Ascending(evo_df, EvolutionDay)
        /\ \A i, j \in 1..Len(comparison_data) :
              i < j => ComparisonRank(comparison_data[i]) <= ComparisonRank(comparison_data[j])

\* A comparison of 2025-02-03 with 2025-01-31 and 2025-02-02, chosen in that
\* order, next to an evolution series over three dates, the first of them
\* from the key that sorts last.
C10_Witness ==
    /\ pc = "done"
    /\ selected_date = Key0203
    /\ comparison_dates = <<Key0131, Key0202>>
    /\ Len(comparison_data) = 5
    /\ ~Ascending(comparison_data, ComparisonDay)
    /\ Len(evo_df) >= 3
    /\ evo_df[1].Date = <<2025, 1, 5>>

(***************************************************************************)
(* Claims about the series, the loaders and the failure paths of app.py,   *)
(* checked under Spec                                                      *)
(***************************************************************************)
\* The dates of the comparison series: the selected date, then the others.
RequestedDates == <<selected_date>> \o comparison_dates

\* Region r has an observation in the snapshot of date key d.
HasObservation(d, r) ==
    d \in DOMAIN all_security_data /\ HasKey(all_security_data[d], r)

\* The override table has an entry for (d, r).
HasOverride(d, r) == d \in DOMAIN risk_data /\ r \in DOMAIN risk_data[d]

\* The level the three analyses give to an observation.
HeuristicLevel(obs) ==
    LevelOfScore(SituationScore(situation_of(obs))
                 + ActivitesScore(activites_of(obs))
                 + CouvreFeuScore(couvre_feu_of(obs)))[1]

\* The rows of a series for date d (as the series writes it) and region r.
RowsOf(series, d, r) ==
    {i \in 1..Len(series) : series[i].Date = d /\ series[i].Region = r}

\* The regions the evolution series is asked for.
PlottedRegions == Elems(regions_to_plot(selected_regions))

\* C11 as stated: in both series, a requested (date, region) has a row iff the
\* region has an observation on that date, and then exactly one, whose level
\* is the override of (date, region) when there is one and the heuristic
\* level of the observation otherwise.
C11_AsClaimed ==
    pc = "done" =>
        /\ comparison_dates /= <<>> =>
             \A d \in Elems(RequestedDates), r \in Elems(selected_regions) :
                LET rows == RowsOf(comparison_data, strftime_dmy(strptime(d)), r)
                IN  IF HasObservation(d, r)
                    THEN /\ Cardinality(rows) = 1
                         /\ \A i \in rows :
                              comparison_data[i].Niveau =
                                IF HasOverride(d, r) THEN risk_data[d][r]
                                ELSE HeuristicLevel(Lookup(all_security_data[d], r))
                    ELSE rows = {}
        /\ \A d \in DOMAIN risk_data, r \in PlottedRegions :
              LET rows == RowsOf(evo_df, strptime(d), r)
              IN  IF HasObservation(d, r)
                  THEN /\ Cardinality(rows) = 1
                       /\ \A i \in rows :
                            evo_df[i].Niveau =
                              IF HasOverride(d, r) THEN risk_data[d][r]
                              ELSE HeuristicLevel(Lookup(all_security_data[d], r))
                  ELSE rows = {}

\* C11, amended: the comparison series has a row for a requested date and a
\* selected region iff the region has an observation on that date, and then
\* exactly one; its level is the label of the override of (date, region) when
\* that label is one of the three levels, and the heuristic level of the
\* observation otherwise, never a null.  The evolution series is read from
\* the override table alone: it has a row for a date of the table and a
\* plotted region iff the table has a non-empty label for them, and then
\* exactly one, with that label as its level; a region with an observation
\* but no override on a date has no row for it.
C11_SeriesContent ==
    pc = "done" =>
        /\ comparison_dates /= <<>> =>
             /\ \A d \in Elems(RequestedDates), r \in Elems(selected_regions) :
                  LET rows == RowsOf(comparison_data, strftime_dmy(strptime(d)), r)
                  IN  IF HasObservation(d, r)
                      THEN /\ Cardinality(rows) = 1
                           /\ \A i \in rows :
                                comparison_data[i].Niveau =
                                  IF /\ HasOverride(d, r)
                                     /\ risk_data[d][r] \in {"Eleve", "Moyen", "Faible"}
                                  THEN risk_data[d][r]
                                  ELSE HeuristicLevel(Lookup(all_security_data[d], r))
                      ELSE rows = {}
             /\ \A i \in 1..Len(comparison_data) :
                  comparison_data[i].Niveau \in {"Eleve", "Moyen", "Faible"}
        /\ \A d \in DOMAIN risk_data, r \in PlottedRegions :
              LET rows == RowsOf(evo_df, strptime(d), r)
              IN  IF HasOverride(d, r) /\ risk_data[d][r] /= ""
                  THEN /\ Cardinality(rows) = 1
                       /\ \A i \in rows : evo_df[i].Niveau = risk_data[d][r]
                  ELSE rows = {}

\* A comparison of 2025-02-03 with 2025-02-02, where the selected region
\* Centre has no observation, next to an evolution series without a row for
\* (2025-02-03, Centre), which has an observation and no override.
C11_Witness ==
    /\ pc = "done"
    /\ selected_date = Key0203
    /\ selected_regions = <<"Centre", "North">>
    /\ comparison_dates = <<Key0202>>
    /\ Len(comparison_data) = 3
    /\ risk_data /= <<>>
    /\ HasObservation(Key0203, "Centre")
    /\ RowsOf(evo_df, <<2025, 2, 3>>, "Centre") = {}
    /\ Len(evo_df) = 5

\* C14: with the security source present, a missing override table, a
\* missing top_stories.json or a missing geometry leaves the run complete,
\* the dependent view without data; without override table every region gets
\* the heuristic level of its observation.
C14_MissingSourceDegrades ==
    pc \notin {"start", "stopped"} =>
        /\ env.top_stories_file.state = "missing" =>
              (pc /= "raised_276" /\ top_stories = <<>>)
        /\ risk_data = <<>> =>
              \A i \in 1..Len(df_stats) :
                 df_stats[i].Niveau =
                    HeuristicLevel(Lookup(security_data, df_stats[i].Region))
        /\ ~gdf.loaded => gdf_filtered = <<>>

\* C15: when the security source is missing, or the selected date has no
\* observation, the run ends in the no-data state: it stops, without an
\* exception, before any classification, aggregation, comparison or map.
C15_NoDataStops ==
    (pc /= "start" /\ Get(all_security_data, selected_date, <<>>) = <<>>) =>
        /\ pc = "stopped"
        /\ df_stats = <<>> /\ filtered_df = <<>>
        /\ total_regions = 0
        /\ alert_high = 0 /\ alert_medium = 0 /\ alert_low = 0
        /\ comparison_data = <<>>
        /\ evo_df = <<>>
        /\ gdf_alert = <<>> /\ gdf_filtered = <<>>

\* After a run with data, the user picked 2025-01-30, whose snapshot is
\* empty, and the run stopped.
C15_Witness ==
    /\ pc = "stopped"
    /\ Len(available_dates) = 3
    /\ date_input = <<2025, 1, 30>>
    /\ selected_date = Key0130
    /\ risk_data /= <<>>
    /\ gdf.loaded

\* The calendar day number of a date key.
DayOf(key) == toordinal(strptime(key))

\* C18: the list of available dates holds each snapshot date of the loaded
\* source exactly once, in strictly descending calendar order, and the date
\* selected on the first run, before any choice of the user, is the most
\* recent available date.
C18_DateIndex ==
    [][/\ Elems(available_dates) = DOMAIN all_security_data
       /\ \A i, j \in 1..Len(available_dates) :
             i < j => DayOf(available_dates[i]) > DayOf(available_dates[j])
       /\ (pc = "start" /\ Len(available_dates) > 0) =>
             /\ selected_date' \in Elems(available_dates)
             /\ \A d \in Elems(available_dates) :
                   DayOf(d) <= DayOf(selected_date')]_vars

C18_Witness ==
    /\ pc = "done"
    /\ available_dates = <<Key0203, Key0202, Key0131>>
    /\ date_input = <<2025, 2, 3>> /\ selected_date = Key0203

\* The shapes of the geometry that have no observation in the snapshot of the
\* selected date.
Unobserved ==
    {i \in 1..Len(gdf.shapeName) : ~HasKey(security_data, gdf.shapeName[i])}

\* The shapes drawn on the map.
Drawn == {gdf_filtered[k].shapeName : k \in 1..Len(gdf_filtered)}

\* C19: a shape of the geometry without observation for the selected date
\* does not make the run fail (a run ends in an exception only for a missing
\* top-stories file or a comparison default outside its options), and it is
\* never drawn on the map with the level and colour the heuristic gives an
\* empty observation.
C19_NameMismatch ==
    /\ (pc = "done" /\ gdf.loaded) =>
          /\ Len(gdf_alert) = Len(gdf.shapeName)
          /\ \A i \in Unobserved : gdf.shapeName[i] \notin Drawn
    /\ pc = "raised_276" => env.top_stories_file.state = "missing"
    /\ pc = "exception" =>
          /\ show_comparison
          /\ comparison_default[1] \notin Elems(comparison_options_of(selected_date))

C19_Witness ==
    /\ pc = "done" /\ gdf.loaded /\ selected_date = Key0203
    /\ \E i \in Unobserved :
          /\ gdf_alert[i].shapeName = "East"
          /\ gdf_alert[i].level = calculate_alert_level(<<>>, "East", Key0203)[1]
    /\ Drawn = {"Centre", "North"}

\* C20: whenever the comparison is enabled with more than one available date,
\* whatever the selected date, the default of the comparison multiselect is
\* one of its options (an available date other than the selected one), so
\* the widget is built and the run goes on.
C20_DefaultInOptions ==
    (pc \in {"done", "exception"} /\ show_comparison /\ Len(available_dates) > 1) =>
        /\ comparison_default[1] \in Elems(comparison_options_of(selected_date))
        /\ comparison_default[1] /= selected_date
        /\ pc = "done"

(***************************************************************************)
(* Claims about the loaders, checked under SpecLoad                        *)
(***************************************************************************)
\* security_data.json held a JSON object and the loader returned.
SecurityLoaded == pc /= "import" /\ env.security_file.state = "json"

\* The JSON object of security_data.json, as the sequence of its pairs.
SecurityObject == env.security_file.data

\* C12: the loader treats the source as keyed by date iff its first key has 10
\* characters with hyphens at positions 4 and 7, and then returns it as it
\* is; any other mapping is loaded as one snapshot, dated with the current
\* date, whose content is the whole mapping.
C12_FormatDetection ==
    SecurityLoaded =>
        LET first == IF Len(SecurityObject) > 0 THEN SecurityObject[1][1] ELSE <<>>
            dated == /\ Len(first) = 10
                     /\ Hyphens(first) \cap {5, 8} = {5, 8}
        IN  IF dated
            THEN /\ DOMAIN all_security_data = {SecurityObject[i][1] : i \in 1..Len(SecurityObject)}
                 /\ \A i \in 1..Len(SecurityObject) :
                       all_security_data[SecurityObject[i][1]] = SecurityObject[i][2]
            ELSE /\ DOMAIN all_security_data = {env.today}
                 /\ all_security_data[env.today] = SecurityObject

\* A flat file whose second key is a date key was loaded as one snapshot.
C12_Witness ==
    /\ pc = "start"
    /\ SecurityObject = << <<KeyNorth, ObsCalm>>, <<Key0203, SampleSecurityData[Key0203]>> >>
    /\ DOMAIN all_security_data = {env.today}
    /\ Len(all_security_data[env.today]) = 2

\* C13: a source that is there but cannot be parsed loads as an empty
\* dataset, as a missing one does, and no parse error leaves the loader.
C13_MalformedLoadsEmpty ==
    pc /= "import" =>
        /\ env.security_file.state = "malformed" =>
              (pc /= "raised_88" /\ all_security_data = <<>>)
        /\ (env.security_file.state /= "malformed" /\ env.risk_file.state = "malformed") =>
              (pc /= "raised_89" /\ risk_data = <<>>)

(***************************************************************************)
(* Claims about the banking page, checked under SpecBank                   *)
(***************************************************************************)
\* C9: no aggregation divides by zero: every rate whose denominator is 0 is
\* 0.  On the banking page these are the overall opening and closed rates
\* (denominator total_banks) and the opening rate of every group by city, by
\* (city, quarter) and by operator (denominator the total of the group).
C9_ZeroDenominatorGivesZero ==
    bank_pc = "done" =>
        /\ total_banks = 0 => (opening_rate = Zero /\ closed_delta = Zero)
        /\ \A i \in 1..Len(city_stats) :
              city_stats[i].Total = 0 => city_stats[i].Taux = Zero
        /\ \A i \in 1..Len(quarter_stats) :
              quarter_stats[i].Total = 0 => quarter_stats[i].Taux = Zero
        /\ \A i \in 1..Len(operator_stats) :
              operator_stats[i].TotalAgences = 0 => operator_stats[i].Taux = Zero

\* The text of the cell Ouvert of row i of the sheet.
RawOuvert(i) == sheet.rows[i].Ouvert

\* A text is the word w up to case and to blanks around it.
VariantOf(text, w) ==
    \E a, b \in 0..Len(text) :
        /\ a + b + Len(w) = Len(text)
        /\ \A k \in 1..Len(text) :
              IF k <= a \/ k > a + Len(w) THEN text[k] = " "
              ELSE LowerChar(text[k]) = w[k - a]

\* C16: after loading, the status of every record is one of the two canonical
\* states, every case or blank variant of "oui" being open and of "non"
\* closed; no record is left with a third, undefined status.
C16_TwoCanonicalStates ==
    bank_pc = "done" =>
        \A i \in 1..Len(df_banking) :
            /\ df_banking[i].Ouvert \in {"Oui", "Non"}
            /\ VariantOf(RawOuvert(i), oui) => df_banking[i].Ouvert = "Oui"
            /\ VariantOf(RawOuvert(i), non) => df_banking[i].Ouvert = "Non"

\* The sum of a column of numbers of a frame.
RECURSIVE SumOf(_, _)
SumOf(rows, col) ==
    IF rows = <<>> THEN 0 ELSE Head(rows)[col] + SumOf(Tail(rows), col)

\* C17: in each of the three groupings, the total of a group is the number of
\* filtered records with its key, its open count the number of those that are
\* open, its closed count the number of those that are closed, its rate the
\* open count over the total, and the totals add up to the number of
\* filtered records.
C17_GroupCounts ==
    bank_pc = "done" =>
        /\ selected_city = "Toutes" =>
              /\ \A i \in 1..Len(city_stats) :
                    LET c == city_stats[i]
                        g == Group(df_filtered, "Ville", c.Ville)
                    IN  /\ c.Total = Len(g)
                        /\ c.Ouverts = CountEq(g, "Ouvert", "Oui")
                        /\ c.Fermes = CountEq(g, "Ouvert", "Non")
                        /\ c.Total = c.Ouverts + c.Fermes
                        /\ c.Taux = Rate(c.Ouverts, Len(g))
              /\ SumOf(city_stats, "Total") = Len(df_filtered)
        /\ \A i \in 1..Len(quarter_stats) :
              LET q == quarter_stats[i]
                  g == Group(Group(df_filtered, "Ville", q.Ville), "Quartier", q.Quartier)
              IN  /\ q.Total = Len(g)
                  /\ q.Ouverts = CountEq(g, "Ouvert", "Oui")
                  /\ q.Taux = Rate(q.Ouverts, Len(g))
        /\ SumOf(quarter_stats, "Total") = Len(df_filtered)
        /\ \A i \in 1..Len(operator_stats) :
              LET o == operator_stats[i]
                  g == Group(df_filtered, "Operateurs", o.Operateur)
              IN  /\ o.TotalAgences = Len(g)
                  /\ o.AgencesOuvertes = CountEq(g, "Ouvert", "Oui")
                  /\ o.AgencesFermees = CountEq(g, "Ouvert", "Non")
                  /\ o.TotalAgences = o.AgencesOuvertes + o.AgencesFermees
                  /\ o.Taux = Rate(o.AgencesOuvertes, Len(g))
        /\ SumOf(operator_stats, "TotalAgences") = Len(df_filtered)

\* C21: for every sheet and every choice of the date, city and status
\* filters, the total number of establishments is the number counted open
\* plus the number counted closed, and without a city filter the overall
\* closed count is the sum of the closed counts of the cities.
C21_OverallMetrics ==
    bank_pc = "done" =>
        /\ total_banks = banks_open + banks_closed
        /\ selected_city = "Toutes" => banks_closed = SumOf(city_stats, "Fermes")

====
